---------------------------- MODULE Spec2Model ----------------------------
(***************************************************************************)
(* A model of example.py: NonceGenerator, KeyGenerator, CatapultRESTAPI    *)
(* and SymbolTransactionCreator.                                           *)
(*                                                                         *)
(* The wall clock is counted in ticks, TicksPerSecond of them to a second, *)
(* so that the truncations to whole seconds made by int(...) and           *)
(* time.mktime(...) are conversions the model performs.  The process's     *)
(* time zone is taken to have a fixed UTC offset.                          *)
(*                                                                         *)
(* The symbolchain library and the node are outside the repository.  The   *)
(* library's digests and signatures are modelled as free constructors      *)
(* (two digests are equal exactly when their inputs are equal); the node   *)
(* answers every request with any status, or not at all.                   *)
(***************************************************************************)
EXTENDS Integers, Sequences, FiniteSets, TLC

VARIABLES
    clock,      \* the wall clock, in ticks
    creator,    \* the SymbolTransactionCreator instance the callers share
    call,       \* call[t]: the operation caller t runs (or ran last) and its arguments
    pc,         \* pc[t]: caller t's position in that operation
    local,      \* local[t]: the operation's local variables
    ret,        \* ret[t]: what the last finished operation returned or raised
    io          \* io[t]: the HTTP requests the operation has issued so far

vars == <<clock, creator, call, pc, local, ret, io>>

-----------------------------------------------------------------------------
(* Bounds of the model. *)

TicksPerSecond == 2     \* clock resolution
MaxClock == 4           \* ticks the clock may advance
MaxEpoch == 1           \* epoch adjustments 0..MaxEpoch (seconds)
MaxHours == 1           \* expiration hours 0..MaxHours
MaxTextLen == 2         \* code points in a message or metadata value
MaxMsgs == 2            \* messages handed to an aggregate transfer

Threads == {"t1", "t2"}

-----------------------------------------------------------------------------
(* Text and its UTF-8 encoding: str.encode("utf8"). *)

RECURSIVE SeqsUpTo(_, _)
SeqsUpTo(S, n) ==
    IF n = 0 THEN {<<>>}
    ELSE LET shorter == SeqsUpTo(S, n - 1)
         IN  shorter \cup {Append(s, x) : s \in shorter, x \in S}

\* One code point of each encoded length (1 to 4 bytes), and NUL.
CodePoints == {0, 65, 233, 8364, 128512}

Texts == SeqsUpTo(CodePoints, MaxTextLen)

utf8_char(c) ==
    IF c < 128 THEN <<c>>
    ELSE IF c < 2048 THEN <<192 + (c \div 64), 128 + (c % 64)>>
    ELSE IF c < 65536
         THEN <<224 + (c \div 4096), 128 + ((c \div 64) % 64), 128 + (c % 64)>>
    ELSE <<240 + (c \div 262144), 128 + ((c \div 4096) % 64),
           128 + ((c \div 64) % 64), 128 + (c % 64)>>

RECURSIVE encode_utf8(_)
encode_utf8(text) ==
    IF text = <<>> THEN <<>>
    ELSE utf8_char(Head(text)) \o encode_utf8(Tail(text))

-----------------------------------------------------------------------------
(* NonceGenerator and KeyGenerator. *)

\* A generate that keeps the clock's resolution instead of whole seconds.
generate_unrounded(now) == now

\* int(time.mktime(datetime.datetime.now().timetuple())): the clock read
\* at `now`, in whole seconds.
generate(now) == now \div TicksPerSecond

\* The first 8 bytes of the SHA3-256 digest of the encoded input, little-endian.
generate_uint64_key(input) ==
    [kind |-> "uint64_le", of |-> [kind |-> "sha3_256", data |-> encode_utf8(input)]]

-----------------------------------------------------------------------------
(* The symbolchain library, as far as example.py uses it. *)

MosaicFlags_NONE == 0
MosaicFlags_SUPPLY_MUTABLE == 1
MosaicFlags_TRANSFERABLE == 2
MosaicFlags_RESTRICTABLE == 4
MosaicFlags_REVOKABLE == 8

\* MosaicFlags.__or__
RECURSIVE BitOr(_, _)
BitOr(a, b) ==
    IF a = 0 THEN b
    ELSE IF b = 0 THEN a
    ELSE (IF a % 2 = 1 \/ b % 2 = 1 THEN 1 ELSE 0) + 2 * BitOr(a \div 2, b \div 2)

ZeroSignature == [kind |-> "zero"]

\* transaction_factory.create: the descriptor's fields, not yet signed.
factory_create(descriptor) ==
    descriptor @@ [embedded |-> FALSE, signature |-> ZeroSignature]

\* transaction_factory.create_embedded
factory_create_embedded(descriptor) == descriptor @@ [embedded |-> TRUE]

\* facade.hash_embedded_transactions: the merkle root over the ordered sequence.
hash_embedded_transactions(txs) == [kind |-> "merkle_root", leaves |-> txs]

\* facade.sign_transaction
sign_transaction(key_pair, transaction) ==
    [kind |-> "signature", private_key |-> key_pair.private_key,
     data |-> [transaction EXCEPT !.signature = ZeroSignature]]

\* transaction_factory.attach_signature sets transaction.signature ...
with_signature(transaction, signature) ==
    [transaction EXCEPT !.signature = signature]

\* ... and returns the JSON payload of the serialized transaction.
json_payload(transaction) == [kind |-> "payload", of |-> transaction]

\* facade.hash_transaction: over the signature, the signer, the network's
\* generation hash seed and the transaction's data.
hash_transaction(self, transaction) ==
    [kind |-> "hash256", network |-> self.network_name, of |-> transaction]

\* str(tx_hash)
str(h) == [kind |-> "hex", of |-> h]

-----------------------------------------------------------------------------
(* SymbolTransactionCreator: the pure part of each operation. *)

NetworkNames == {"mainnet", "testnet", "devnet"}
NodeUrl == "https://node"
MaxFee == 2000000

NoCreator == [kind |-> "none"]

\* An __init__ without the final else: any other name is taken for a testnet.
new_creator_unchecked(network_name, node_url, epoch_adjustment, max_fee, expiration_hour) ==
    LET self == [kind |-> "creator", network_name |-> network_name,
                 node_url |-> node_url, epoch_adjustment |-> epoch_adjustment,
                 max_fee |-> max_fee, expiration_hour |-> expiration_hour]
    IN  IF network_name = "mainnet"
        THEN self @@ [explorer_url |-> "https://symbol.fyi/transactions/"]
        ELSE self @@ [explorer_url |-> "https://testnet.symbol.fyi/transactions/"]

\* __init__: the instance, or NoCreator where it raises.
new_creator(network_name, node_url, epoch_adjustment, max_fee, expiration_hour) ==
    LET self == [kind |-> "creator", network_name |-> network_name,
                 node_url |-> node_url, epoch_adjustment |-> epoch_adjustment,
                 max_fee |-> max_fee, expiration_hour |-> expiration_hour]
    IN  IF network_name = "mainnet"
        THEN self @@ [explorer_url |-> "https://symbol.fyi/transactions/"]
        ELSE IF network_name = "testnet"
        THEN self @@ [explorer_url |-> "https://testnet.symbol.fyi/transactions/"]
        ELSE NoCreator

Creators ==
    {new_creator(n, NodeUrl, e, MaxFee, h) :
        n \in {"mainnet", "testnet"}, e \in 0..MaxEpoch, h \in 0..MaxHours}

\* A _get_deadline that converts to milliseconds before it truncates.
get_deadline_unrounded(self, now) ==
    (((now + self.expiration_hour * 3600 * TicksPerSecond) * 1000) \div TicksPerSecond)
        - self.epoch_adjustment * 1000

\* _get_deadline with the clock reading `now`.
get_deadline(self, now) ==
    (((now + self.expiration_hour * 3600 * TicksPerSecond) \div TicksPerSecond)
        - self.epoch_adjustment) * 1000

\* A message without the leading zero byte.
plain_message_unprefixed(message) == encode_utf8(message)

\* bytes(1) + message.encode("utf8")
plain_message(message) == <<0>> \o encode_utf8(message)

create_transfer_transaction(self, now, a) ==
    factory_create([
        type |-> "transfer_transaction",
        signer_public_key |-> a.signer_public_key,
        deadline |-> get_deadline(self, now),
        fee |-> self.max_fee,
        recipient_address |-> a.recipient_address,
        mosaics |-> a.mosaics,
        message |-> plain_message(a.message)])

\* An aggregate transfer whose hash is taken before the inner transactions
\* are appended.
create_aggregate_transfer_transaction_early_hash(self, now, a) ==
    LET inner_txs == [i \in 1..Len(a.messages) |->
            factory_create_embedded([
                type |-> "transfer_transaction",
                signer_public_key |-> a.signer_public_key,
                recipient_address |-> a.recipient_address,
                mosaics |-> a.mosaics,
                message |-> <<0>> \o encode_utf8(a.messages[i])])]
    IN  factory_create([
            type |-> "aggregate_complete_transaction",
            signer_public_key |-> a.signer_public_key,
            fee |-> self.max_fee,
            deadline |-> (((now + self.expiration_hour * 3600 * TicksPerSecond)
                            \div TicksPerSecond) - self.epoch_adjustment) * 1000,
            transactions_hash |-> hash_embedded_transactions(<<>>),
            transactions |-> inner_txs])

create_aggregate_transfer_transaction(self, now, a) ==
    LET inner_txs == [i \in 1..Len(a.messages) |->
            factory_create_embedded([
                type |-> "transfer_transaction",
                signer_public_key |-> a.signer_public_key,
                recipient_address |-> a.recipient_address,
                mosaics |-> a.mosaics,
                message |-> plain_message(a.messages[i])])]
    IN  factory_create([
            type |-> "aggregate_complete_transaction",
            signer_public_key |-> a.signer_public_key,
            fee |-> self.max_fee,
            deadline |-> get_deadline(self, now),
            transactions_hash |-> hash_embedded_transactions(inner_txs),
            transactions |-> inner_txs])

\* Flags assigned instead of or-ed: the last true boolean wins.
mosaic_flags_assigned(transferable, supply_mutable, restrictable, revokable) ==
    LET f0 == MosaicFlags_NONE
        f1 == IF transferable THEN MosaicFlags_TRANSFERABLE ELSE f0
        f2 == IF supply_mutable THEN MosaicFlags_SUPPLY_MUTABLE ELSE f1
        f3 == IF restrictable THEN MosaicFlags_RESTRICTABLE ELSE f2
        f4 == IF revokable THEN MosaicFlags_REVOKABLE ELSE f3
    IN  f4

\* The four conditional or-assignments.
mosaic_flags(transferable, supply_mutable, restrictable, revokable) ==
    LET f0 == MosaicFlags_NONE
        f1 == IF transferable THEN BitOr(f0, MosaicFlags_TRANSFERABLE) ELSE f0
        f2 == IF supply_mutable THEN BitOr(f1, MosaicFlags_SUPPLY_MUTABLE) ELSE f1
        f3 == IF restrictable THEN BitOr(f2, MosaicFlags_RESTRICTABLE) ELSE f2
        f4 == IF revokable THEN BitOr(f3, MosaicFlags_REVOKABLE) ELSE f3
    IN  f4

\* `deadline` and `flags` were computed before the nonce is generated at `now`.
create_mosaic_definition_transaction(self, deadline, flags, now, a) ==
    factory_create([
        type |-> "mosaic_definition_transaction",
        signer_public_key |-> a.signer_public_key,
        deadline |-> deadline,
        fee |-> self.max_fee,
        duration |-> a.duration,
        nonce |-> generate(now),
        flags |-> flags,
        divisibility |-> a.divisibility])

create_mosaic_supply_change_transaction(self, now, a) ==
    factory_create([
        type |-> "mosaic_supply_change_transaction",
        signer_public_key |-> a.signer_public_key,
        deadline |-> get_deadline(self, now),
        fee |-> self.max_fee,
        mosaic_id |-> a.mosaic_id,
        delta |-> a.supply_units,
        action |-> "INCREASE"])

\* A metadata transaction returned bare, without the aggregate around it.
create_mosaic_metadata_transaction_bare(self, now, a) ==
    factory_create([
        type |-> "mosaic_metadata_transaction",
        signer_public_key |-> a.signer_public_key,
        fee |-> self.max_fee,
        deadline |-> (((now + self.expiration_hour * 3600 * TicksPerSecond)
                        \div TicksPerSecond) - self.epoch_adjustment) * 1000,
        target_address |-> a.target_address,
        target_mosaic_id |-> a.target_mosaic_id,
        scoped_metadata_key |-> generate_uint64_key(a.scoped_metadata_key),
        value |-> <<0>> \o encode_utf8(a.value),
        value_size_delta |-> 1 + Len(encode_utf8(a.value))])

create_mosaic_metadata_transaction(self, now, a) ==
    LET tx == factory_create_embedded([
            type |-> "mosaic_metadata_transaction",
            signer_public_key |-> a.signer_public_key,
            target_address |-> a.target_address,
            target_mosaic_id |-> a.target_mosaic_id,
            scoped_metadata_key |-> generate_uint64_key(a.scoped_metadata_key),
            value |-> plain_message(a.value),
            value_size_delta |-> Len(plain_message(a.value))])
    IN  factory_create([
            type |-> "aggregate_complete_transaction",
            signer_public_key |-> a.signer_public_key,
            fee |-> self.max_fee,
            deadline |-> get_deadline(self, now),
            transactions_hash |-> hash_embedded_transactions(<<tx>>),
            transactions |-> <<tx>>])

-----------------------------------------------------------------------------
(* CatapultRESTAPI: the parsing of GET /network/properties. *)

Value(v) == [kind |-> "value", value |-> v]
Raise(e) == [kind |-> "error", value |-> e]
None == [kind |-> "none"]

Statuses == {200, 202, 404, 500, 503}

Digits == <<"0", "1", "2", "3", "4", "5", "6", "7", "8", "9",
            "A", "B", "C", "D", "E", "F">>

DigitValue(ch) == (CHOOSE i \in 1..Len(Digits) : Digits[i] = ch) - 1

IsDigit(ch, base) == \E i \in 1..base : Digits[i] = ch

\* str.replace(old, ""), old a single character
RECURSIVE replace(_, _)
replace(string, old) ==
    IF string = <<>> THEN <<>>
    ELSE IF Head(string) = old THEN replace(Tail(string), old)
    ELSE <<Head(string)>> \o replace(Tail(string), old)

RECURSIVE digits_value(_, _)
digits_value(string, base) ==
    IF string = <<>> THEN 0
    ELSE digits_value(SubSeq(string, 1, Len(string) - 1), base) * base
            + DigitValue(string[Len(string)])

\* int(string, base) on strings of digits, with the "0x" prefix base 16 allows
int(string, base) ==
    LET body == IF base = 16 /\ Len(string) >= 2 /\ SubSeq(string, 1, 2) = <<"0", "x">>
                THEN SubSeq(string, 3, Len(string))
                ELSE string
    IN  IF body # <<>> /\ \A i \in 1..Len(body) : IsDigit(body[i], base)
        THEN Value(digits_value(body, base))
        ELSE Raise(<<"ValueError">>)

\* The documents a node may answer with.  json = FALSE: not a JSON document.
Bodies == {
    [json |-> TRUE,
     doc |-> [network |-> [epochAdjustment |-> <<"1", "2", "s">>],
              chain |-> [currencyMosaicId |-> <<"0", "x", "3", "A", "'", "8", "4">>]]],
    [json |-> TRUE,
     doc |-> [network |-> [epochAdjustment |-> <<"1", "h">>],
              chain |-> [currencyMosaicId |-> <<"'", "'">>]]],
    [json |-> TRUE,
     doc |-> [network |-> [identifier |-> <<"t">>], chain |-> [identifier |-> <<"t">>]]],
    [json |-> FALSE, doc |-> [network |-> [identifier |-> <<>>], chain |-> [identifier |-> <<>>]]] }

StatusError(status_code) == Raise(<<"status code is", status_code>>)

\* A get_epoch_adjustment that does not look at the status.
epoch_adjustment_of_unchecked(status_code, body) ==
    IF ~body.json THEN Raise(<<"JSONDecodeError">>)
    ELSE IF "epochAdjustment" \notin DOMAIN body.doc.network THEN Raise(<<"KeyError">>)
    ELSE int(replace(body.doc.network.epochAdjustment, "s"), 10)

\* get_epoch_adjustment from the response on
epoch_adjustment_of(status_code, body) ==
    IF status_code # 200 THEN StatusError(status_code)
    ELSE IF ~body.json THEN Raise(<<"JSONDecodeError">>)
    ELSE IF "epochAdjustment" \notin DOMAIN body.doc.network THEN Raise(<<"KeyError">>)
    ELSE int(replace(body.doc.network.epochAdjustment, "s"), 10)

\* get_currency_mosaic_id from the response on
currency_mosaic_id_of(status_code, body) ==
    IF status_code # 200 THEN StatusError(status_code)
    ELSE IF ~body.json THEN Raise(<<"JSONDecodeError">>)
    ELSE IF "currencyMosaicId" \notin DOMAIN body.doc.chain THEN Raise(<<"KeyError">>)
    ELSE int(replace(body.doc.chain.currencyMosaicId, "'"), 16)

\* An announce that takes every status below 300 for an acceptance.
announce_result_any_2xx(status_code, tx_hash) ==
    IF status_code >= 300 THEN StatusError(status_code) ELSE Value(str(tx_hash))

\* sign_and_announce_transaction from the response on
announce_result(status_code, tx_hash) ==
    IF status_code # 202 THEN StatusError(status_code) ELSE Value(str(tx_hash))

-----------------------------------------------------------------------------
(* The state machine. *)

StartClock == MaxEpoch * TicksPerSecond   \* the network's epoch lies in the past

NoTx == [type |-> "none"]

NoLocal == [now |-> -1, deadline |-> -1, flags |-> -1, nonce_now |-> -1,
            transaction |-> NoTx, signature |-> ZeroSignature,
            payload |-> None, tx_hash |-> None, status_code |-> -1]

Request(method, url, data) == [method |-> method, url |-> url, data |-> data]

Running(t, op, at) == pc[t] = at /\ call[t].op = op

Finish(t, result) ==
    /\ pc' = [pc EXCEPT ![t] = "done"]
    /\ ret' = [ret EXCEPT ![t] = result]

Tick ==
    /\ clock < StartClock + MaxClock
    /\ clock' = clock + 1
    /\ UNCHANGED <<creator, call, pc, local, ret, io>>

Construct(t) ==
    /\ Running(t, "__init__", "start")
    /\ LET a    == call[t].args
           self == new_creator(a.network_name, a.node_url, a.epoch_adjustment,
                               a.max_fee, a.expiration_hour)
       IN  IF self.kind = "none"
           THEN /\ Finish(t, Raise(<<"Unknown network name.">>))
                /\ UNCHANGED creator
           ELSE /\ Finish(t, Value(self))
                /\ creator' = self
    /\ UNCHANGED <<clock, call, local, io>>

CreateTransfer(t) ==
    /\ Running(t, "create_transfer_transaction", "start")
    /\ creator.kind = "creator"
    /\ local' = [local EXCEPT ![t].now = clock,
                               ![t].deadline = get_deadline(creator, clock)]
    /\ Finish(t, Value(create_transfer_transaction(creator, clock, call[t].args)))
    /\ UNCHANGED <<clock, creator, call, io>>

CreateAggregateTransfer(t) ==
    /\ Running(t, "create_aggregate_transfer_transaction", "start")
    /\ creator.kind = "creator"
    /\ local' = [local EXCEPT ![t].now = clock,
                               ![t].deadline = get_deadline(creator, clock)]
    /\ Finish(t, Value(create_aggregate_transfer_transaction(creator, clock, call[t].args)))
    /\ UNCHANGED <<clock, creator, call, io>>

\* create_mosaic_definition_transaction reads the clock twice: for the
\* deadline, and later for the nonce.
MosaicDefinitionDeadline(t) ==
    /\ Running(t, "create_mosaic_definition_transaction", "start")
    /\ creator.kind = "creator"
    /\ LET a == call[t].args
       IN  local' = [local EXCEPT
                ![t].now = clock,
                ![t].deadline = get_deadline(creator, clock),
                ![t].flags = mosaic_flags(a.transferable, a.supply_mutable,
                                          a.restrictable, a.revokable)]
    /\ pc' = [pc EXCEPT ![t] = "nonce"]
    /\ UNCHANGED <<clock, creator, call, ret, io>>

MosaicDefinitionNonce(t) ==
    /\ Running(t, "create_mosaic_definition_transaction", "nonce")
    /\ local' = [local EXCEPT ![t].nonce_now = clock]
    /\ Finish(t, Value(create_mosaic_definition_transaction(
                    creator, local[t].deadline, local[t].flags, clock, call[t].args)))
    /\ UNCHANGED <<clock, creator, call, io>>

CreateMosaicSupplyChange(t) ==
    /\ Running(t, "create_mosaic_supply_change_transaction", "start")
    /\ creator.kind = "creator"
    /\ local' = [local EXCEPT ![t].now = clock,
                               ![t].deadline = get_deadline(creator, clock)]
    /\ Finish(t, Value(create_mosaic_supply_change_transaction(creator, clock, call[t].args)))
    /\ UNCHANGED <<clock, creator, call, io>>

CreateMosaicMetadata(t) ==
    /\ Running(t, "create_mosaic_metadata_transaction", "start")
    /\ creator.kind = "creator"
    /\ local' = [local EXCEPT ![t].now = clock,
                               ![t].deadline = get_deadline(creator, clock)]
    /\ Finish(t, Value(create_mosaic_metadata_transaction(creator, clock, call[t].args)))
    /\ UNCHANGED <<clock, creator, call, io>>

\* requests.get(url), up to the point where the call waits for the answer
GetNetworkProperties(t) ==
    /\ pc[t] = "start"
    /\ call[t].op \in {"get_epoch_adjustment", "get_currency_mosaic_id"}
    /\ io' = [io EXCEPT ![t] = Append(@, Request("GET", <<NodeUrl, "/network/properties">>, None))]
    /\ pc' = [pc EXCEPT ![t] = "response"]
    /\ UNCHANGED <<clock, creator, call, local, ret>>

EpochAdjustmentResponse(t) ==
    /\ Running(t, "get_epoch_adjustment", "response")
    /\ \E status_code \in Statuses, body \in Bodies :
          /\ local' = [local EXCEPT ![t].status_code = status_code]
          /\ Finish(t, epoch_adjustment_of(status_code, body))
    /\ UNCHANGED <<clock, creator, call, io>>

CurrencyMosaicIdResponse(t) ==
    /\ Running(t, "get_currency_mosaic_id", "response")
    /\ \E status_code \in Statuses, body \in Bodies :
          /\ local' = [local EXCEPT ![t].status_code = status_code]
          /\ Finish(t, currency_mosaic_id_of(status_code, body))
    /\ UNCHANGED <<clock, creator, call, io>>

\* signature = self._facade.sign_transaction(key_pair, transaction)
Sign(t) ==
    /\ Running(t, "sign_and_announce_transaction", "start")
    /\ creator.kind = "creator"
    /\ local' = [local EXCEPT
            ![t].transaction = call[t].args.transaction,
            ![t].signature = sign_transaction(call[t].args.key_pair,
                                              call[t].args.transaction)]
    /\ pc' = [pc EXCEPT ![t] = "attach"]
    /\ UNCHANGED <<clock, creator, call, ret, io>>

\* payload = ...attach_signature(transaction, signature).encode()
AttachSignature(t) ==
    /\ Running(t, "sign_and_announce_transaction", "attach")
    /\ LET signed == with_signature(local[t].transaction, local[t].signature)
       IN  local' = [local EXCEPT ![t].transaction = signed,
                                  ![t].payload = Value(json_payload(signed))]
    /\ pc' = [pc EXCEPT ![t] = "hash"]
    /\ UNCHANGED <<clock, creator, call, ret, io>>

\* The hash taken of the transaction as the caller passed it, unsigned.
HashTransactionUnsigned(t) ==
    /\ Running(t, "sign_and_announce_transaction", "hash")
    /\ local' = [local EXCEPT
            ![t].tx_hash = Value(hash_transaction(creator, call[t].args.transaction))]
    /\ pc' = [pc EXCEPT ![t] = "put"]
    /\ UNCHANGED <<clock, creator, call, ret, io>>

\* tx_hash = self._facade.hash_transaction(transaction)
HashTransaction(t) ==
    /\ Running(t, "sign_and_announce_transaction", "hash")
    /\ local' = [local EXCEPT
            ![t].tx_hash = Value(hash_transaction(creator, local[t].transaction))]
    /\ pc' = [pc EXCEPT ![t] = "put"]
    /\ UNCHANGED <<clock, creator, call, ret, io>>

\* requests.put(url, headers=http_headers, data=payload), up to the answer
PutTransaction(t) ==
    /\ Running(t, "sign_and_announce_transaction", "put")
    /\ io' = [io EXCEPT ![t] = Append(@, Request("PUT", <<creator.node_url, "/transactions">>,
                                                 local[t].payload))]
    /\ pc' = [pc EXCEPT ![t] = "response"]
    /\ UNCHANGED <<clock, creator, call, local, ret>>

AnnounceResponse(t) ==
    /\ Running(t, "sign_and_announce_transaction", "response")
    /\ \E status_code \in Statuses :
          /\ local' = [local EXCEPT ![t].status_code = status_code]
          /\ Finish(t, announce_result(status_code, local[t].tx_hash.value))
    /\ UNCHANGED <<clock, creator, call, io>>

\* The node does not answer: requests raises, and so does the operation.
NoResponse(t) ==
    /\ pc[t] = "response"
    /\ Finish(t, Raise(<<"ConnectionError">>))
    /\ UNCHANGED <<clock, creator, call, local, io>>

-----------------------------------------------------------------------------
(* The callers' inputs. *)

KeyPairs == {[private_key |-> "private key A", public_key |-> "public key A"],
             [private_key |-> "private key B", public_key |-> "public key B"]}

Signers == {k.public_key : k \in KeyPairs}

RecipientAddress == "TA3HQR6NPMXK7W6EP3AO6X5S4OSHVBU3ZEWBTNQ"

MosaicLists == {<<>>, <<[mosaic_id |-> "3A8416DB2D53B6C8", amount |-> 18000000]>>}

Call(op, args) == [op |-> op, args |-> args]

NoCall == Call("none", None)

TransferCalls(signers, mosaic_lists, texts) ==
    {Call("create_transfer_transaction",
          [signer_public_key |-> s, recipient_address |-> RecipientAddress,
           mosaics |-> m, message |-> x]) :
        s \in signers, m \in mosaic_lists, x \in texts}

AggregateTransferCalls(signers, mosaic_lists, texts) ==
    {Call("create_aggregate_transfer_transaction",
          [signer_public_key |-> s, recipient_address |-> RecipientAddress,
           mosaics |-> m, messages |-> xs]) :
        s \in signers, m \in mosaic_lists, xs \in SeqsUpTo(texts, MaxMsgs)}

MosaicDefinitionCalls(signers, divisibilities, booleans) ==
    {Call("create_mosaic_definition_transaction",
          [signer_public_key |-> s, divisibility |-> d, duration |-> 1000,
           transferable |-> b[1], supply_mutable |-> b[2],
           restrictable |-> b[3], revokable |-> b[4]]) :
        s \in signers, d \in divisibilities,
        b \in booleans \X booleans \X booleans \X booleans}

MosaicSupplyChangeCalls(signers, units) ==
    {Call("create_mosaic_supply_change_transaction",
          [signer_public_key |-> s, mosaic_id |-> "251208ED3D0ABC84",
           supply_units |-> u]) :
        s \in signers, u \in units}

MosaicMetadataCalls(signers, keys, texts) ==
    {Call("create_mosaic_metadata_transaction",
          [signer_public_key |-> s, target_address |-> RecipientAddress,
           target_mosaic_id |-> "251208ED3D0ABC84",
           scoped_metadata_key |-> k, value |-> x]) :
        s \in signers, k \in keys, x \in texts}

ConstructCalls ==
    {Call("__init__",
          [network_name |-> n, node_url |-> NodeUrl, epoch_adjustment |-> e,
           max_fee |-> MaxFee, expiration_hour |-> h]) :
        n \in NetworkNames, e \in 0..MaxEpoch, h \in 0..MaxHours}

SignAndAnnounceCalls(transactions) ==
    {Call("sign_and_announce_transaction", [transaction |-> tx, key_pair |-> k]) :
        tx \in transactions, k \in KeyPairs}

CreateOps == {"create_transfer_transaction", "create_aggregate_transfer_transaction",
              "create_mosaic_definition_transaction",
              "create_mosaic_supply_change_transaction",
              "create_mosaic_metadata_transaction"}

-----------------------------------------------------------------------------
(* Spec: the script's use of one node: the two queries, the construction   *)
(* of the creator, and the building, signing and announcing of             *)
(* transactions, one operation after the other.                            *)

Main == "t1"
Other == "t2"

\* What the script may call next.
NextCalls ==
    {Call("get_epoch_adjustment", None), Call("get_currency_mosaic_id", None)}
    \cup (IF creator.kind = "none" THEN ConstructCalls ELSE
            TransferCalls({"public key A"}, {<<>>}, {<<>>, <<65>>})
            \cup MosaicMetadataCalls({"public key A"}, {<<75>>}, {<<233>>}))
    \cup (IF ret[Main].kind = "value" /\ call[Main].op \in CreateOps
          THEN SignAndAnnounceCalls({ret[Main].value})
          ELSE {})
    \* the same transaction object, announced again
    \cup (IF Running(Main, "sign_and_announce_transaction", "done")
             /\ local[Main].transaction.type # "none"
          THEN SignAndAnnounceCalls({local[Main].transaction})
          ELSE {})

Invoke(t) ==
    /\ pc[t] \in {"idle", "done"}
    /\ \E c \in NextCalls : call' = [call EXCEPT ![t] = c]
    /\ pc' = [pc EXCEPT ![t] = "start"]
    /\ local' = [local EXCEPT ![t] = NoLocal]
    /\ ret' = [ret EXCEPT ![t] = None]
    /\ io' = [io EXCEPT ![t] = <<>>]
    /\ UNCHANGED <<clock, creator>>

Init ==
    /\ clock = StartClock
    /\ creator = NoCreator
    /\ call = [t \in Threads |-> NoCall]
    /\ pc = [t \in Threads |-> "idle"]
    /\ local = [t \in Threads |-> NoLocal]
    /\ ret = [t \in Threads |-> None]
    /\ io = [t \in Threads |-> <<>>]

Next ==
    \/ Tick
    \/ Invoke(Main)
    \/ Construct(Main)
    \/ CreateTransfer(Main)
    \/ CreateMosaicMetadata(Main)
    \/ GetNetworkProperties(Main)
    \/ EpochAdjustmentResponse(Main)
    \/ CurrencyMosaicIdResponse(Main)
    \/ Sign(Main)
    \/ AttachSignature(Main)
    \/ HashTransaction(Main)
    \/ PutTransaction(Main)
    \/ AnnounceResponse(Main)
    \/ NoResponse(Main)

Spec == Init /\ [][Next]_vars

-----------------------------------------------------------------------------
(* The builds: the creator exists, and each caller runs one create_*       *)
(* operation on inputs drawn from the bounded sets.                        *)

InitCalls(calls1, calls2) ==
    /\ clock = StartClock
    /\ creator \in Creators
    /\ \E c1 \in calls1, c2 \in calls2 :
          call = [t \in Threads |-> IF t = Main THEN c1 ELSE c2]
    /\ pc = [t \in Threads |-> IF call[t] = NoCall THEN "idle" ELSE "start"]
    /\ local = [t \in Threads |-> NoLocal]
    /\ ret = [t \in Threads |-> None]
    /\ io = [t \in Threads |-> <<>>]

\* SpecBuild: one caller, every create_* operation, every text.
BuildCalls ==
    TransferCalls(Signers, MosaicLists, Texts)
    \cup AggregateTransferCalls(Signers, {<<>>}, {<<>>, <<65>>, <<233, 128512>>})
    \cup MosaicDefinitionCalls(Signers, {0, 6}, BOOLEAN)
    \cup MosaicSupplyChangeCalls(Signers, {0, 1000})
    \cup MosaicMetadataCalls(Signers, {<<>>, <<75, 233>>}, Texts)

InitBuild == InitCalls(BuildCalls, {NoCall})

NextBuild ==
    \/ Tick
    \/ CreateTransfer(Main)
    \/ CreateAggregateTransfer(Main)
    \/ MosaicDefinitionDeadline(Main)
    \/ MosaicDefinitionNonce(Main)
    \/ CreateMosaicSupplyChange(Main)
    \/ CreateMosaicMetadata(Main)

SpecBuild == InitBuild /\ [][NextBuild]_vars

\* SpecAggregate: two aggregate transfers built on the same creator.
AggregateCalls ==
    AggregateTransferCalls({"public key A"}, {<<>>}, {<<>>, <<233, 65>>})

InitAggregate == InitCalls(AggregateCalls, AggregateCalls)

NextAggregate ==
    \/ Tick
    \/ \E t \in Threads : CreateAggregateTransfer(t)

SpecAggregate == InitAggregate /\ [][NextAggregate]_vars

\* SpecClock: two callers, each running any create_* operation while the
\* clock advances.
ClockCalls ==
    TransferCalls({"public key A"}, {<<>>}, {<<65>>})
    \cup AggregateTransferCalls({"public key A"}, {<<>>}, {})
    \cup MosaicDefinitionCalls({"public key A"}, {0}, {TRUE})
    \cup MosaicSupplyChangeCalls({"public key A"}, {1000})
    \cup MosaicMetadataCalls({"public key A"}, {<<75>>}, {<<65>>})

InitClock == InitCalls(ClockCalls, ClockCalls)

NextClock ==
    \/ Tick
    \/ \E t \in Threads :
          \/ CreateTransfer(t)
          \/ CreateAggregateTransfer(t)
          \/ MosaicDefinitionDeadline(t)
          \/ MosaicDefinitionNonce(t)
          \/ CreateMosaicSupplyChange(t)
          \/ CreateMosaicMetadata(t)

SpecClock == InitClock /\ [][NextClock]_vars

-----------------------------------------------------------------------------
(* The properties. *)

Done(t, op) == pc[t] = "done" /\ call[t].op = op

Built(t) == pc[t] = "done" /\ call[t].op \in CreateOps /\ ret[t].kind = "value"

ValidNetworkNames == {"mainnet", "testnet"}

\* C1: sign_and_announce_transaction returns a hash exactly when the node
\* answered its PUT /transactions with status 202; with any other status, or
\* no answer, it raises; and a returned hash is the content hash of the
\* transaction whose payload that call submitted, which is the caller's
\* transaction with the signature attached.
C1_HashIffAccepted ==
    \A t \in Threads : Done(t, "sign_and_announce_transaction") =>
        /\ ret[t].kind \in {"value", "error"}
        /\ ret[t].kind = "value" <=> local[t].status_code = 202
        /\ ret[t].kind = "value" =>
              /\ Len(io[t]) = 1
              /\ io[t][1].method = "PUT"
              /\ io[t][1].url = <<creator.node_url, "/transactions">>
              /\ io[t][1].data.kind = "value"
              /\ LET submitted == io[t][1].data.value.of
                     a == call[t].args
                 IN  /\ submitted = with_signature(a.transaction,
                                        sign_transaction(a.key_pair, a.transaction))
                     /\ ret[t].value = str(hash_transaction(creator, submitted))

C1_Witness ==
    /\ Done(Main, "sign_and_announce_transaction")
    /\ local[Main].status_code = 202
    /\ ret[Main].kind = "value"
    /\ call[Main].args.transaction.type = "aggregate_complete_transaction"

\* C2: constructing a SymbolTransactionCreator with a network name other than
\* "mainnet" or "testnet" raises, the construction has issued no request, and
\* no instance exists afterwards.
C2_UnknownNetworkRaises ==
    \A t \in Threads :
        (Done(t, "__init__") /\ call[t].args.network_name \notin ValidNetworkNames) =>
            /\ ret[t].kind = "error"
            /\ io[t] = <<>>
            /\ creator.kind = "none"
            /\ ~ENABLED CreateTransfer(t)

C2_Witness ==
    /\ Done(Main, "__init__")
    /\ call[Main].args.network_name = "devnet"
    /\ ret[Main].kind = "error"
    /\ io[Main] = <<>>

\* C8: get_epoch_adjustment and get_currency_mosaic_id each issue one GET
\* /network/properties and never a second; a status other than 200 makes the
\* call raise, and a value is returned only after status 200.
C8_OneGetNoValueOnFailure ==
    \A t \in Threads :
        call[t].op \in {"get_epoch_adjustment", "get_currency_mosaic_id"} =>
            /\ Len(io[t]) = (IF pc[t] = "start" THEN 0 ELSE 1)
            /\ \A i \in 1..Len(io[t]) :
                  io[t][i] = Request("GET", <<NodeUrl, "/network/properties">>, None)
            /\ ret[t].kind = "value" => (pc[t] = "done" /\ local[t].status_code = 200)
            /\ (pc[t] = "done" /\ local[t].status_code # 200) => ret[t].kind = "error"

C8_Witness ==
    /\ Done(Main, "get_epoch_adjustment")
    /\ local[Main].status_code = 503
    /\ ret[Main].kind = "error"
    /\ Len(io[Main]) = 1

\* C10: in sign_and_announce_transaction the node is not contacted before the
\* hash is computed, the hash is computed over the transaction with the
\* signature attached, the payload put is that of the same signed
\* transaction, and the call issues one PUT /transactions whatever the answer.
C10_StepOrder ==
    \A t \in Threads : call[t].op = "sign_and_announce_transaction" =>
        LET a == call[t].args
            signed == with_signature(a.transaction,
                                     sign_transaction(a.key_pair, a.transaction))
        IN  /\ pc[t] \in {"start", "attach", "hash", "put"} => io[t] = <<>>
            /\ pc[t] \in {"start", "attach"} => local[t].payload.kind = "none"
            /\ pc[t] \in {"start", "attach", "hash"} => local[t].tx_hash.kind = "none"
            /\ pc[t] \in {"hash", "put", "response", "done"} =>
                  /\ local[t].transaction = signed
                  /\ local[t].payload = Value(json_payload(signed))
            /\ pc[t] \in {"put", "response", "done"} =>
                  local[t].tx_hash = Value(hash_transaction(creator, signed))
            /\ pc[t] \in {"response", "done"} =>
                  io[t] = <<Request("PUT", <<creator.node_url, "/transactions">>,
                                    local[t].payload)>>

C10_Witness ==
    /\ Done(Main, "sign_and_announce_transaction")
    /\ local[Main].status_code = 500
    /\ ret[Main].kind = "error"
    /\ Len(io[Main]) = 1

\* The deadline formula of the specification, for a clock reading `now`.
SpecDeadline(now) ==
    ((now \div TicksPerSecond) + creator.expiration_hour * 3600
        - creator.epoch_adjustment) * 1000

DeadlineFormula ==
    \A t \in Threads : Built(t) => ret[t].value.deadline = SpecDeadline(local[t].now)

C9_NonceWholeSeconds ==
    LET defined(t) == Done(t, "create_mosaic_definition_transaction")
    IN  /\ \A t \in Threads : defined(t) =>
              /\ ret[t].value.nonce * TicksPerSecond <= local[t].nonce_now
              /\ local[t].nonce_now < (ret[t].value.nonce + 1) * TicksPerSecond
        /\ \A t, u \in Threads : (defined(t) /\ defined(u)) =>
              /\ local[t].nonce_now <= local[u].nonce_now =>
                    ret[t].value.nonce <= ret[u].value.nonce
              /\ (local[t].nonce_now \div TicksPerSecond
                    = local[u].nonce_now \div TicksPerSecond) =>
                    ret[t].value.nonce = ret[u].value.nonce

\* Two interleaved calls: Other reads its deadline after Main did and
\* generates its nonce before Main does, within one second.
C9_Witness ==
    /\ Done(Main, "create_mosaic_definition_transaction")
    /\ Done(Other, "create_mosaic_definition_transaction")
    /\ local[Main].now <= local[Other].now
    /\ local[Other].nonce_now < local[Main].nonce_now
    /\ ret[Main].value.nonce = ret[Other].value.nonce

HasFlag(flags, flag) == (flags \div flag) % 2 = 1

\* C6: the flags of a mosaic definition hold the bit of a flag exactly when
\* that flag's boolean is true, and no other bit; all false gives NONE.
C6_Flags ==
    \A t \in Threads : Done(t, "create_mosaic_definition_transaction") =>
        LET f == ret[t].value.flags
            a == call[t].args
        IN  /\ f \in 0..15
            /\ HasFlag(f, MosaicFlags_TRANSFERABLE) <=> a.transferable
            /\ HasFlag(f, MosaicFlags_SUPPLY_MUTABLE) <=> a.supply_mutable
            /\ HasFlag(f, MosaicFlags_RESTRICTABLE) <=> a.restrictable
            /\ HasFlag(f, MosaicFlags_REVOKABLE) <=> a.revokable
            /\ (~a.transferable /\ ~a.supply_mutable /\ ~a.restrictable /\ ~a.revokable)
                  => f = MosaicFlags_NONE

C6_Witness ==
    /\ Done(Main, "create_mosaic_definition_transaction")
    /\ call[Main].args.transferable /\ ~call[Main].args.supply_mutable
    /\ call[Main].args.restrictable /\ call[Main].args.revokable
    /\ ret[Main].value.flags = 14

(* bytes.decode("utf8"), by which the properties read the encoded text back. *)

\* The number of bytes the lead byte b announces (0: not a lead byte).
utf8_width(b) ==
    IF b < 128 THEN 1
    ELSE IF b >= 192 /\ b < 224 THEN 2
    ELSE IF b >= 224 /\ b < 240 THEN 3
    ELSE IF b >= 240 /\ b < 248 THEN 4
    ELSE 0

utf8_point(bs) ==
    CASE Len(bs) = 1 -> bs[1]
      [] Len(bs) = 2 -> (bs[1] - 192) * 64 + (bs[2] - 128)
      [] Len(bs) = 3 -> (bs[1] - 224) * 4096 + (bs[2] - 128) * 64 + (bs[3] - 128)
      [] OTHER       -> (bs[1] - 240) * 262144 + (bs[2] - 128) * 4096
                          + (bs[3] - 128) * 64 + (bs[4] - 128)

utf8_width_of_point(c) ==
    IF c < 128 THEN 1 ELSE IF c < 2048 THEN 2 ELSE IF c < 65536 THEN 3 ELSE 4

DecodeError == <<-1>>

\* bytes.decode("utf8"): the text, or DecodeError where decode raises.
RECURSIVE decode_utf8(_)
decode_utf8(bytes) ==
    IF bytes = <<>> THEN <<>>
    ELSE LET w == utf8_width(bytes[1])
         IN  IF w = 0 \/ w > Len(bytes) THEN DecodeError
             ELSE IF \E i \in 2..w : bytes[i] < 128 \/ bytes[i] >= 192
                  THEN DecodeError
             ELSE LET c    == utf8_point(SubSeq(bytes, 1, w))
                      rest == decode_utf8(SubSeq(bytes, w + 1, Len(bytes)))
                  IN  IF \/ utf8_width_of_point(c) # w          \* overlong
                         \/ (c >= 55296 /\ c < 57344)           \* surrogate
                         \/ c > 1114111
                         \/ rest = DecodeError
                      THEN DecodeError
                      ELSE <<c>> \o rest

\* The bytes are one zero byte and then the UTF-8 encoding of the text, which
\* decodes back to the text.
IsPlainMessage(bytes, text) ==
    /\ Len(bytes) >= 1
    /\ bytes[1] = 0
    /\ \A i \in 1..Len(bytes) : bytes[i] \in 0..255
    /\ Tail(bytes) = encode_utf8(text)
    /\ decode_utf8(Tail(bytes)) = text

\* C4: create_mosaic_metadata_transaction returns an aggregate complete
\* transaction holding exactly one embedded mosaic metadata transaction, its
\* transactions_hash taken over that one-element sequence, and the embedded
\* value_size_delta is 1 + the length of the UTF-8 encoding of the value.
C4_MetadataWrapped ==
    \A t \in Threads : Done(t, "create_mosaic_metadata_transaction") =>
        LET tx == ret[t].value
        IN  /\ ret[t].kind = "value"
            /\ tx.type = "aggregate_complete_transaction"
            /\ ~tx.embedded
            /\ Len(tx.transactions) = 1
            /\ tx.transactions[1].type = "mosaic_metadata_transaction"
            /\ tx.transactions[1].embedded
            /\ tx.transactions_hash = hash_embedded_transactions(<<tx.transactions[1]>>)
            /\ tx.transactions[1].value_size_delta
                  = 1 + Len(encode_utf8(call[t].args.value))
            /\ tx.transactions[1].value_size_delta = Len(tx.transactions[1].value)

C4_Witness ==
    /\ Done(Main, "create_mosaic_metadata_transaction")
    /\ call[Main].args.value = <<233, 128512>>
    /\ ret[Main].value.transactions[1].value_size_delta = 7

\* C7: the message of a transfer, of every inner transfer of an aggregate
\* transfer, and the value of a mosaic metadata transaction are one zero byte
\* followed by the UTF-8 encoding of the caller's text, and decoding them
\* without the first byte gives the text back.
C7_PlainMessage ==
    \A t \in Threads :
        /\ Done(t, "create_transfer_transaction") =>
              IsPlainMessage(ret[t].value.message, call[t].args.message)
        /\ Done(t, "create_aggregate_transfer_transaction") =>
              /\ Len(ret[t].value.transactions) = Len(call[t].args.messages)
              /\ \A i \in 1..Len(call[t].args.messages) :
                    IsPlainMessage(ret[t].value.transactions[i].message,
                                   call[t].args.messages[i])
        /\ Done(t, "create_mosaic_metadata_transaction") =>
              /\ ret[t].value.type = "aggregate_complete_transaction"
              /\ IsPlainMessage(ret[t].value.transactions[1].value, call[t].args.value)

C7_Witness ==
    /\ Done(Main, "create_transfer_transaction")
    /\ call[Main].args.message = <<8364, 65>>
    /\ ret[Main].value.message = <<0, 226, 130, 172, 65>>

\* C5: an aggregate transfer of N messages holds N embedded transfers, the
\* i-th with the i-th message, all with the caller's signer, recipient and
\* mosaics; its transactions_hash is taken over that sequence, so that two
\* builds carry the same hash exactly when their inner sequences are equal,
\* and builds from different message sequences carry different hashes.
C5_AggregateTransfer ==
    LET built(t) == Done(t, "create_aggregate_transfer_transaction")
    IN  /\ \A t \in Threads : built(t) =>
              LET tx == ret[t].value
                  a == call[t].args
              IN  /\ tx.type = "aggregate_complete_transaction"
                  /\ Len(tx.transactions) = Len(a.messages)
                  /\ \A i \in 1..Len(a.messages) :
                        /\ tx.transactions[i].embedded
                        /\ tx.transactions[i].type = "transfer_transaction"
                        /\ tx.transactions[i].message = <<0>> \o encode_utf8(a.messages[i])
                        /\ tx.transactions[i].signer_public_key = a.signer_public_key
                        /\ tx.transactions[i].recipient_address = a.recipient_address
                        /\ tx.transactions[i].mosaics = a.mosaics
                  /\ tx.transactions_hash = hash_embedded_transactions(tx.transactions)
        /\ \A t, u \in Threads : (built(t) /\ built(u)) =>
              /\ (ret[t].value.transactions = ret[u].value.transactions)
                    <=> (ret[t].value.transactions_hash = ret[u].value.transactions_hash)
              /\ call[t].args.messages # call[u].args.messages =>
                    ret[t].value.transactions_hash # ret[u].value.transactions_hash

\* Two builds from the same two messages in opposite orders, at different times.
C5_Witness ==
    /\ Done(Main, "create_aggregate_transfer_transaction")
    /\ Done(Other, "create_aggregate_transfer_transaction")
    /\ local[Main].now # local[Other].now
    /\ Len(call[Main].args.messages) = 2
    /\ call[Main].args.messages[1] # call[Main].args.messages[2]
    /\ call[Other].args.messages
          = <<call[Main].args.messages[2], call[Main].args.messages[1]>>
    /\ ret[Main].value.transactions_hash # ret[Other].value.transactions_hash

=============================================================================
